---- MODULE Spec2Model ----
(***************************************************************************)
(* Model of src/app.py: the batch driver (main), the retrying submitter    *)
(* (make_request), the payload builder (prepare_payload), the outcome      *)
(* logger (log_result) and the interrupt monitor (GracefulExit).           *)
(*                                                                         *)
(* Strings that the program takes apart or builds (cell contents, str(),   *)
(* int(), split) are sequences of one-character strings.  Fixed message    *)
(* texts are TLA+ strings.                                                 *)
(***************************************************************************)
EXTENDS Integers, Sequences, FiniteSets, TLC

VARIABLES
    pc,           \* position of main(): which statement runs next
    kill_now,     \* GracefulExit.kill_now
    df,           \* the DataFrame read from the spreadsheet: a sequence of rows
    idx,          \* 1-based position of the row the for loop is at
    payload,      \* main's local `payload`: unbound, None or a value
    attempt,      \* make_request's loop variable `attempt` (0-based)
    max_retries,  \* make_request's parameter max_retries
    response,     \* main's local `response`: <<>> or <<status code>>
    exc,          \* the exception in flight / bound to `e` in a handler
    success_log,  \* lines of successful_requests_<ts>.txt, oldest first
    failure_log,  \* lines of failed_requests_<ts>.txt, oldest first
    \* ---- history (ghost) variables: what happened to each record ----
    built,        \* per record: "none", "ok" (payload built), "failed"
    events,       \* per record: its requests.post calls and sleeps, in order
    started,      \* number of records that passed the loop-top flag check
    killAt        \* where main() was when the flag was first set

vars == <<pc, kill_now, df, idx, payload, attempt, max_retries, response, exc,
          success_log, failure_log, built, events, started, killAt>>

----------------------------------------------------------------------------
\* Bounds of the model

\* longest spreadsheet (number of rows) the model reads
MaxRecords == 2

\* longest tag_ids text the model reads
MaxTagLen == 2

\* largest max_retries the model calls make_request with
MaxAttempts == 4

\* default of make_request's max_retries parameter
DefaultMaxRetries == 3

\* default value of stage_id when the cell is missing
DefaultStageId == 10

\* seconds make_request sleeps between two attempts
SleepSeconds == 1

----------------------------------------------------------------------------
\* Cells, rows and Python's conversions

Digits == <<"0", "1", "2", "3", "4", "5", "6", "7", "8", "9">>

\* a spreadsheet cell as pandas hands it over: a str, an int, a float with
\* zero fraction, or the missing marker NaN
StrCell(s) == [t |-> "str", s |-> s, n |-> 0]
IntCell(n) == [t |-> "int", s |-> <<>>, n |-> n]
FloatCell(n) == [t |-> "float", s |-> <<>>, n |-> n]
NaN == [t |-> "nan", s |-> <<>>, n |-> 0]

RECURSIVE IntToStr(_)
\* str(n) for a non-negative int: its decimal digits
IntToStr(n) ==
    IF n < 10 THEN <<Digits[n + 1]>>
    ELSE IntToStr(n \div 10) \o <<Digits[(n % 10) + 1]>>

IsDigit(c) == \E d \in 1..10 : Digits[d] = c

DigitVal(c) == (CHOOSE d \in 1..10 : Digits[d] = c) - 1

RECURSIVE StrToInt(_)
\* the value of a non-empty string of decimal digits
StrToInt(s) ==
    IF Len(s) = 0 THEN 0
    ELSE 10 * StrToInt(SubSeq(s, 1, Len(s) - 1)) + DigitVal(s[Len(s)])

\* str(x) of a cell value
PyStr(c) ==
    CASE c.t = "str" -> c.s
      [] c.t = "int" -> IntToStr(c.n)
      [] c.t = "float" -> IntToStr(c.n) \o <<".", "0">>
      [] OTHER -> <<"n", "a", "n">>

\* int(x) raises ValueError for NaN and for a string that is not a number
PyIntRaises(c) ==
    \/ c.t = "nan"
    \/ c.t = "str" /\ (Len(c.s) = 0 \/ \E k \in 1..Len(c.s) : ~IsDigit(c.s[k]))

\* int(x) of a cell value for which it does not raise
PyInt(c) == IF c.t = "str" THEN StrToInt(c.s) ELSE c.n

RECURSIVE Split(_, _)
\* s.split(sep) for a one-character separator: the pieces between the
\* separators; a string holding no separator (the empty string too) is
\* returned whole, as the only piece
Split(s, sep) ==
    IF \A k \in 1..Len(s) : s[k] # sep THEN <<s>>
    ELSE LET k == CHOOSE j \in 1..Len(s) :
                      s[j] = sep /\ \A m \in 1..(j - 1) : s[m] # sep
         IN <<SubSeq(s, 1, k - 1)>> \o Split(SubSeq(s, k + 1, Len(s)), sep)

Columns == {"Name", "Company Name", "x_studio_tese", "user_id", "team_id",
            "tag_ids", "stage_id"}

\* prepare_payload's try block raises: a column is missing (KeyError) or an
\* int() conversion fails (ValueError)
PayloadRaises(row) ==
    \/ \E c \in Columns : c \notin DOMAIN row
    \/ PyIntRaises(row["user_id"])
    \/ PyIntRaises(row["team_id"])
    \/ row["stage_id"].t # "nan" /\ PyIntRaises(row["stage_id"])

\* the dict prepare_payload's try block builds
PayloadDict(row) ==
    [name |-> PyStr(row["Name"]),
     contact_name |-> PyStr(row["Company Name"]),
     x_studio_tese |-> PyStr(row["x_studio_tese"]),
     user_id |-> PyInt(row["user_id"]),
     team_id |-> PyInt(row["team_id"]),
     tag_ids |-> IF row["tag_ids"].t = "str"
                 THEN Split(row["tag_ids"].s, ",") ELSE <<>>,
     stage_id |-> IF row["stage_id"].t # "nan"
                  THEN PyInt(row["stage_id"]) ELSE DefaultStageId]

\* prepare_payload(row): <<the dict>>, or <<>> for None when the try block
\* raised (the exception is printed and swallowed)
prepare_payload(row) ==
    IF PayloadRaises(row) THEN <<>> ELSE <<PayloadDict(row)>>

----------------------------------------------------------------------------
\* The inputs the model draws from

\* the row of the spec's worked example: tags "a,b", stage_id missing
RowAcme ==
    [c \in Columns |->
        CASE c = "Name" -> StrCell(<<"A">>)
          [] c = "Company Name" -> StrCell(<<"B">>)
          [] c = "x_studio_tese" -> StrCell(<<"x">>)
          [] c = "user_id" -> IntCell(5)
          [] c = "team_id" -> IntCell(2)
          [] c = "tag_ids" -> StrCell(<<"a", ",", "b">>)
          [] OTHER -> NaN]

\* a row with no tags, a numeric name, a float stage and a textual team_id,
\* whose user_id cell is empty: int(NaN) raises
RowBad ==
    [c \in Columns |->
        CASE c = "Name" -> IntCell(42)
          [] c = "Company Name" -> StrCell(<<"C">>)
          [] c = "x_studio_tese" -> NaN
          [] c = "user_id" -> NaN
          [] c = "team_id" -> StrCell(<<"1", "7">>)
          [] c = "tag_ids" -> NaN
          [] OTHER -> FloatCell(3)]

Rows == {RowAcme, RowBad}

\* every spreadsheet of at most MaxRecords rows
Sheets == UNION {[1..k -> Rows] : k \in 0..MaxRecords}

\* every text of at most MaxTagLen characters over a letter and the comma
TagTexts == UNION {[1..k -> {"a", ","}] : k \in 0..MaxTagLen}

\* the tag_ids cells the model reads: a text (the empty one too), a missing
\* cell, a number
TagCells == {StrCell(t) : t \in TagTexts} \cup {NaN, IntCell(7)}

\* the worked example's row with each of these tag_ids cells
TagRows == {[RowAcme EXCEPT !["tag_ids"] = c] : c \in TagCells}

\* status codes the endpoint answers with
Statuses == {200, 201, 500}

----------------------------------------------------------------------------
\* Exceptions, errors and log lines

NoExc == [cls |-> "none", attempt |-> 0]

\* an exception raised by the attempt-th requests.post of a record (or by a
\* log write, attempt 0)
Exc(cls, a) == [cls |-> cls, attempt |-> a]

\* main's error_msg: a fixed text, then a status code or str(e).  The texts
\* are written without their diacritics (requisicao)
Err(text, code, cause) == [text |-> text, code |-> code, cause |-> cause]

NoErr == Err("", 0, NoExc)

\* bool(response): a requests.Response is truthy when its status is below 400
Truthy(resp) == Len(resp) = 1 /\ resp[1] < 400

\* the line log_result(file_path, data, response, error) appends.  `rec` (the
\* record being processed) and `handled` (the exception main is handling)
\* are history fields, not part of the text
log_result(rec, data, resp, error, handled) ==
    IF Truthy(resp)
    THEN [rec |-> rec, kind |-> "Sucesso", data |-> data, label |-> "Status",
          code |-> resp[1], text |-> "", cause |-> NoExc, handled |-> handled]
    ELSE [rec |-> rec, kind |-> "Falha", data |-> data, label |-> "Erro",
          code |-> error.code, text |-> error.text, cause |-> error.cause,
          handled |-> handled]

\* mutant: 201 Created is not counted as success
Accepted_Only200(code) == code = 200

\* the status codes main counts as success
Accepted(code) == code \in {200, 201}

\* mutant: make_request never takes an attempt for the last one
LastAttempt_Never(a, m) == FALSE

\* mutant: the last-attempt test is off by one and gives up an attempt early
LastAttempt_OffByOne(a, m) == a = m - 2

\* make_request's test `attempt == max_retries - 1`
LastAttempt(a, m) == a = m - 1

Unbound == [bound |-> FALSE, v |-> <<>>, of |-> 0]

\* killAt before any signal; `lines` and `posts` count the log lines written
\* and the POSTs issued before the flag was first set
NotKilled ==
    [set |-> FALSE, pc |-> "", idx |-> 0, started |-> 0, lines |-> 0,
     posts |-> 0]

RECURSIVE SumPosts(_, _)
\* number of requests.post calls in the events of records 1..n
SumPosts(evs, n) ==
    IF n = 0 THEN 0
    ELSE SumPosts(evs, n - 1)
         + Cardinality({k \in DOMAIN evs[n] : evs[n][k].ev # "sleep"})

\* where main() is, for the history: taken when the flag is first set
Snapshot ==
    [set |-> TRUE, pc |-> pc, idx |-> idx, started |-> started,
     lines |-> Len(success_log) + Len(failure_log),
     posts |-> SumPosts(events, Len(df))]

\* history events of one record: a requests.post call with its outcome
\* ("response", "Timeout", "RequestException", "Exception"), or a sleep
PostEv(out, a, code) == [ev |-> out, attempt |-> a, code |-> code, dur |-> 0]

SleepEv(dur) == [ev |-> "sleep", attempt |-> 0, code |-> 0, dur |-> dur]

----------------------------------------------------------------------------
\* The state after GracefulExit() and create_log_files(): handlers installed,
\* flag false, both logs empty, nothing read yet

Init ==
    /\ pc = "read"
    /\ kill_now = FALSE
    /\ df = <<>>
    /\ idx = 0
    /\ payload = Unbound
    /\ attempt = 0
    /\ max_retries = DefaultMaxRetries
    /\ response = <<>>
    /\ exc = NoExc
    /\ success_log = <<>>
    /\ failure_log = <<>>
    /\ built = <<>>
    /\ events = <<>>
    /\ started = 0
    /\ killAt = NotKilled

Running == pc \notin {"finished", "returned", "crashed"}

\* mutant: the handler sets the flag and ends the process itself
exit_gracefully_Exits ==
    /\ kill_now' = TRUE
    /\ killAt' = IF kill_now THEN killAt ELSE Snapshot
    /\ pc' = "finished"
    /\ UNCHANGED <<df, idx, payload, attempt, max_retries, response, exc,
                   success_log, failure_log, built, events, started>>

\* GracefulExit.exit_gracefully: prints a notice and sets the flag; it does
\* not raise and does not exit, so main() resumes where it was
exit_gracefully ==
    /\ kill_now' = TRUE
    /\ killAt' = IF kill_now THEN killAt ELSE Snapshot
    /\ UNCHANGED <<pc, df, idx, payload, attempt, max_retries, response, exc,
                   success_log, failure_log, built, events, started>>

\* SIGINT or SIGTERM is delivered while the process runs
Signal ==
    /\ Running
    /\ exit_gracefully

\* read_excel_file succeeded: main goes on to the loop over df.iterrows()
ReadOk ==
    /\ pc = "read"
    /\ \E sheet \in Sheets :
        /\ df' = sheet
        /\ built' = [i \in 1..Len(sheet) |-> "none"]
        /\ events' = [i \in 1..Len(sheet) |-> <<>>]
    /\ idx' = 1
    /\ pc' = "loop"
    /\ UNCHANGED <<kill_now, payload, attempt, max_retries, response, exc,
                   success_log, failure_log, started, killAt>>

\* mutant: the read error is written to the failure log before returning
ReadFails_LogsIt ==
    /\ pc = "read"
    /\ pc' = "returned"
    /\ failure_log' = Append(failure_log,
            log_result(0, payload, <<>>, Err("Erro ao ler arquivo Excel: ", 0, NoExc),
                       NoExc))
    /\ UNCHANGED <<kill_now, df, idx, payload, attempt, max_retries, response,
                   exc, success_log, built, events, started, killAt>>

\* read_excel_file succeeded with a sheet of one row drawn from TagRows
ReadTagSheet ==
    /\ pc = "read"
    /\ \E row \in TagRows : df' = <<row>>
    /\ built' = <<"none">>
    /\ events' = <<<<>>>>
    /\ idx' = 1
    /\ pc' = "loop"
    /\ UNCHANGED <<kill_now, payload, attempt, max_retries, response, exc,
                   success_log, failure_log, started, killAt>>

\* read_excel_file caught an exception and returned None: main returns
ReadFails ==
    /\ pc = "read"
    /\ pc' = "returned"
    /\ UNCHANGED <<kill_now, df, idx, payload, attempt, max_retries, response,
                   exc, success_log, failure_log, built, events, started,
                   killAt>>

\* the for loop has no row left: "Processamento finalizado!"
LoopExhausted ==
    /\ pc = "loop"
    /\ idx > Len(df)
    /\ pc' = "finished"
    /\ UNCHANGED <<kill_now, df, idx, payload, attempt, max_retries, response,
                   exc, success_log, failure_log, built, events, started,
                   killAt>>

\* mutant: the loop clears the flag when it honours it
LoopBreak_ResetsFlag ==
    /\ pc = "loop"
    /\ idx <= Len(df)
    /\ kill_now
    /\ kill_now' = FALSE
    /\ pc' = "finished"
    /\ UNCHANGED <<df, idx, payload, attempt, max_retries, response,
                   exc, success_log, failure_log, built, events, started,
                   killAt>>

\* `if graceful_exit.kill_now: break`, then "Processamento finalizado!"
LoopBreak ==
    /\ pc = "loop"
    /\ idx <= Len(df)
    /\ kill_now
    /\ pc' = "finished"
    /\ UNCHANGED <<kill_now, df, idx, payload, attempt, max_retries, response,
                   exc, success_log, failure_log, built, events, started,
                   killAt>>

\* mutant: the loop does not look at the flag before taking a row
LoopEnter_IgnoresFlag ==
    /\ pc = "loop"
    /\ idx <= Len(df)
    /\ pc' = "build"
    /\ started' = started + 1
    /\ UNCHANGED <<kill_now, df, idx, payload, attempt, max_retries, response,
                   exc, success_log, failure_log, built, events, killAt>>

\* the flag is clear: the row at idx is processed
LoopEnter ==
    /\ pc = "loop"
    /\ idx <= Len(df)
    /\ ~kill_now
    /\ pc' = "build"
    /\ started' = started + 1
    /\ UNCHANGED <<kill_now, df, idx, payload, attempt, max_retries, response,
                   exc, success_log, failure_log, built, events, killAt>>

\* mutant: prepare_payload lets its exception out, so `payload` keeps what
\* it held and main's `except Exception` logs with it
Build_StalePayload ==
    /\ pc = "build"
    /\ LET p == prepare_payload(df[idx]) IN
        IF p = <<>>
        THEN /\ payload' = payload
             /\ built' = [built EXCEPT ![idx] = "failed"]
             /\ exc' = Exc("ValueError", 0)
             /\ pc' = "except_exception"
        ELSE /\ payload' = [bound |-> TRUE, v |-> p, of |-> idx]
             /\ built' = [built EXCEPT ![idx] = "ok"]
             /\ exc' = exc
             /\ pc' = "post"
    /\ attempt' = 0
    /\ UNCHANGED <<kill_now, df, idx, max_retries, response, success_log,
                   failure_log, events, started, killAt>>

\* mutant: the `if payload is None: continue` is missing
Build_NoContinue ==
    /\ pc = "build"
    /\ LET p == prepare_payload(df[idx]) IN
        /\ payload' = [bound |-> TRUE, v |-> p, of |-> idx]
        /\ built' = [built EXCEPT ![idx] = IF p = <<>> THEN "failed" ELSE "ok"]
    /\ pc' = "post"
    /\ attempt' = 0
    /\ UNCHANGED <<kill_now, df, idx, max_retries, response, exc, success_log,
                   failure_log, events, started, killAt>>

\* `payload = prepare_payload(row)`; `if payload is None: continue`,
\* otherwise make_request is entered with attempt 0
Build ==
    /\ pc = "build"
    /\ LET p == prepare_payload(df[idx]) IN
        /\ payload' = [bound |-> TRUE, v |-> p, of |-> idx]
        /\ IF p = <<>>
           THEN /\ built' = [built EXCEPT ![idx] = "failed"]
                /\ idx' = idx + 1
                /\ pc' = "loop"
           ELSE /\ built' = [built EXCEPT ![idx] = "ok"]
                /\ idx' = idx
                /\ pc' = "post"
    /\ attempt' = 0
    /\ UNCHANGED <<kill_now, df, max_retries, response, exc, success_log,
                   failure_log, events, started, killAt>>

\* the record at idx is done: the for loop moves to the next row
NextRecord ==
    /\ idx' = idx + 1
    /\ pc' = "loop"
    /\ attempt' = 0
    /\ exc' = NoExc

\* mutant: a 5xx response is retried like a transport failure
PostResponse_Retry5xx ==
    /\ pc = "post"
    /\ attempt < max_retries
    /\ \E code \in Statuses :
        /\ response' = <<code>>
        /\ events' = [events EXCEPT
                        ![idx] = Append(@, PostEv("response", attempt + 1, code))]
        /\ IF code >= 500 /\ attempt < max_retries - 1
           THEN attempt' = attempt /\ pc' = "sleep"
           ELSE attempt' = 0 /\ pc' = "classify"
    /\ UNCHANGED <<kill_now, df, idx, payload, max_retries, exc, success_log,
                   failure_log, built, started, killAt>>

\* requests.post returned a response: make_request returns it at once,
\* whatever its status code
PostResponse ==
    /\ pc = "post"
    /\ attempt < max_retries
    /\ \E code \in Statuses :
        /\ response' = <<code>>
        /\ events' = [events EXCEPT
                        ![idx] = Append(@, PostEv("response", attempt + 1, code))]
    /\ attempt' = 0
    /\ pc' = "classify"
    /\ UNCHANGED <<kill_now, df, idx, payload, max_retries, exc, success_log,
                   failure_log, built, started, killAt>>

\* mutant: only a Timeout is retried, any other failure is raised at once
PostFails_RetriesTimeoutOnly(cls, handler) ==
    /\ pc = "post"
    /\ attempt < max_retries
    /\ events' = [events EXCEPT ![idx] = Append(@, PostEv(cls, attempt + 1, 0))]
    /\ IF LastAttempt(attempt, max_retries) \/ cls # "Timeout"
       THEN /\ exc' = Exc(cls, attempt + 1)
            /\ attempt' = 0
            /\ pc' = handler
       ELSE /\ exc' = exc
            /\ attempt' = attempt
            /\ pc' = "sleep"
    /\ UNCHANGED <<kill_now, df, idx, payload, max_retries, response,
                   success_log, failure_log, built, started, killAt>>

\* one failed requests.post inside make_request: the exception is re-raised
\* to main on the last attempt, otherwise make_request goes to sleep
PostFails(cls, handler) ==
    /\ pc = "post"
    /\ attempt < max_retries
    /\ events' = [events EXCEPT ![idx] = Append(@, PostEv(cls, attempt + 1, 0))]
    /\ IF LastAttempt(attempt, max_retries)
       THEN /\ exc' = Exc(cls, attempt + 1)
            /\ attempt' = 0
            /\ pc' = handler
       ELSE /\ exc' = exc
            /\ attempt' = attempt
            /\ pc' = "sleep"
    /\ UNCHANGED <<kill_now, df, idx, payload, max_retries, response,
                   success_log, failure_log, built, started, killAt>>

\* requests.post raised requests.exceptions.Timeout
PostTimeout == PostFails("Timeout", "except_timeout")

\* requests.post raised another requests.exceptions.RequestException
PostRequestException == PostFails("RequestException", "except_request")

\* requests.post raised something that is no RequestException: neither
\* except clause of make_request matches and it reaches main at once
PostUnexpected ==
    /\ pc = "post"
    /\ attempt < max_retries
    /\ events' = [events EXCEPT
                    ![idx] = Append(@, PostEv("Exception", attempt + 1, 0))]
    /\ exc' = Exc("Exception", attempt + 1)
    /\ attempt' = 0
    /\ pc' = "except_exception"
    /\ UNCHANGED <<kill_now, df, idx, payload, max_retries, response,
                   success_log, failure_log, built, started, killAt>>

\* `time.sleep(1)`, then the next iteration of make_request's for loop
Sleep ==
    /\ pc = "sleep"
    /\ events' = [events EXCEPT ![idx] = Append(@, SleepEv(SleepSeconds))]
    /\ attempt' = attempt + 1
    /\ pc' = "post"
    /\ UNCHANGED <<kill_now, df, idx, payload, max_retries, response, exc,
                   success_log, failure_log, built, started, killAt>>

\* mutant: the line is put at the head of the file
AppendLine_Prepend(file, line) == <<line>> \o file

\* log_result opens the file in mode 'a' and writes its line at the end
AppendLine(file, line) == Append(file, line)

\* mutant: the line of a refused status is written to the success file
Classify_SwapsFiles ==
    /\ pc = "classify"
    /\ response # <<>>
    /\ success_log' = AppendLine(success_log,
            IF Accepted(response[1])
            THEN log_result(idx, payload, response, NoErr, NoExc)
            ELSE log_result(idx, payload, <<>>,
                            Err("Status code: ", response[1], NoExc), NoExc))
    /\ failure_log' = failure_log
    /\ NextRecord
    /\ UNCHANGED <<kill_now, df, payload, max_retries, response, built,
                   events, started, killAt>>

\* mutant: the failure line of a refused status leaves the code out
Classify_NoCode ==
    /\ pc = "classify"
    /\ response # <<>>
    /\ IF Accepted(response[1])
       THEN /\ success_log' = AppendLine(success_log,
                    log_result(idx, payload, response, NoErr, NoExc))
            /\ failure_log' = failure_log
       ELSE /\ failure_log' = AppendLine(failure_log,
                    log_result(idx, payload, <<>>,
                               Err("Status code: ", 0, NoExc), NoExc))
            /\ success_log' = success_log
    /\ NextRecord
    /\ UNCHANGED <<kill_now, df, payload, max_retries, response, built,
                   events, started, killAt>>

\* `if response.status_code in (200, 201)`: one line in the success log,
\* else one line "Status code: <code>" in the failure log
Classify ==
    /\ pc = "classify"
    /\ response # <<>>
    /\ IF Accepted(response[1])
       THEN /\ success_log' = AppendLine(success_log,
                    log_result(idx, payload, response, NoErr, NoExc))
            /\ failure_log' = failure_log
       ELSE /\ failure_log' = AppendLine(failure_log,
                    log_result(idx, payload, <<>>,
                               Err("Status code: ", response[1], NoExc), NoExc))
            /\ success_log' = success_log
    /\ NextRecord
    /\ UNCHANGED <<kill_now, df, payload, max_retries, response, built,
                   events, started, killAt>>

\* mutant: the except clause prints its message and logs nothing
Handler_NoLog(at, text, cause) ==
    /\ pc = at
    /\ NextRecord
    /\ UNCHANGED <<kill_now, df, payload, max_retries, response, success_log,
                   failure_log, built, events, started, killAt>>

\* an except clause of main: one line in the failure log, then the next row
Handler(at, text, cause) ==
    /\ pc = at
    /\ failure_log' = AppendLine(failure_log,
            log_result(idx, payload, <<>>, Err(text, 0, cause), exc))
    /\ NextRecord
    /\ UNCHANGED <<kill_now, df, payload, max_retries, response, success_log,
                   built, events, started, killAt>>

\* `except requests.exceptions.Timeout`: the text does not include str(e)
ExceptTimeout == Handler("except_timeout", "Timeout na requisicao", NoExc)

\* `except requests.exceptions.RequestException as e`
ExceptRequest == Handler("except_request", "Erro na requisicao: ", exc)

\* `except Exception as e`
ExceptException == Handler("except_exception", "Erro inesperado: ", exc)

\* log_result raises inside the try block (the file cannot be opened or
\* written: OSError): no line is written and `except Exception` catches it
ClassifyLogRaises ==
    /\ pc = "classify"
    /\ exc' = Exc("OSError", 0)
    /\ pc' = "except_exception"
    /\ UNCHANGED <<kill_now, df, idx, payload, attempt, max_retries, response,
                   success_log, failure_log, built, events, started, killAt>>

\* log_result raises inside an except clause of main: nothing catches it,
\* main() ends with a traceback
HandlerLogRaises ==
    /\ pc \in {"except_timeout", "except_request", "except_exception"}
    /\ exc' = Exc("OSError", 0)
    /\ pc' = "crashed"
    /\ UNCHANGED <<kill_now, df, idx, payload, attempt, max_retries, response,
                   success_log, failure_log, built, events, started, killAt>>

Next ==
    \/ Signal
    \/ ReadOk
    \/ ReadFails
    \/ LoopExhausted
    \/ LoopBreak
    \/ LoopEnter
    \/ Build
    \/ PostResponse
    \/ PostTimeout
    \/ PostRequestException
    \/ PostUnexpected
    \/ Sleep
    \/ Classify
    \/ ExceptTimeout
    \/ ExceptRequest
    \/ ExceptException

\* make_request's for loop ends without a return or a raise: every attempt
\* was used up without the last-attempt test ever holding (max_retries is 0
\* or less), so the function returns None
MakeRequestExhausted ==
    /\ pc = "post"
    /\ attempt >= max_retries
    /\ response' = <<>>
    /\ attempt' = 0
    /\ pc' = "classify"
    /\ UNCHANGED <<kill_now, df, idx, payload, max_retries, exc, success_log,
                   failure_log, built, events, started, killAt>>

\* `response.status_code` with response None raises AttributeError, which
\* `except Exception` catches
ClassifyNone ==
    /\ pc = "classify"
    /\ response = <<>>
    /\ exc' = Exc("AttributeError", 0)
    /\ pc' = "except_exception"
    /\ UNCHANGED <<kill_now, df, idx, payload, attempt, max_retries, response,
                   success_log, failure_log, built, events, started, killAt>>

\* read_excel_file succeeded with the one-row sheet of the worked example
ReadOne ==
    /\ pc = "read"
    /\ df' = <<RowAcme>>
    /\ built' = <<"none">>
    /\ events' = <<<<>>>>
    /\ idx' = 1
    /\ pc' = "loop"
    /\ UNCHANGED <<kill_now, payload, attempt, max_retries, response, exc,
                   success_log, failure_log, started, killAt>>

\* the start of a run in which make_request is called with max_retries
\* from 0 to MaxAttempts in place of its default
InitRetries ==
    /\ pc = "read"
    /\ kill_now = FALSE
    /\ df = <<>>
    /\ idx = 0
    /\ payload = Unbound
    /\ attempt = 0
    /\ max_retries \in 0..MaxAttempts
    /\ response = <<>>
    /\ exc = NoExc
    /\ success_log = <<>>
    /\ failure_log = <<>>
    /\ built = <<>>
    /\ events = <<>>
    /\ started = 0
    /\ killAt = NotKilled

\* the steps of main() on one record, from the loop top to its log line
RecordStep ==
    \/ LoopExhausted
    \/ LoopBreak
    \/ LoopEnter
    \/ Build
    \/ PostResponse
    \/ PostTimeout
    \/ PostRequestException
    \/ PostUnexpected
    \/ Sleep
    \/ Classify
    \/ ExceptTimeout
    \/ ExceptRequest
    \/ ExceptException

NextRetries ==
    \/ Signal
    \/ ReadOne
    \/ RecordStep
    \/ MakeRequestExhausted
    \/ ClassifyNone

\* the program on a one-row sheet, for every value of max_retries
SpecRetries == InitRetries /\ [][NextRetries]_vars

\* the steps of main(), the single thread of the program
MainStep ==
    \/ ReadOk
    \/ ReadFails
    \/ LoopExhausted
    \/ LoopBreak
    \/ LoopEnter
    \/ Build
    \/ PostResponse
    \/ PostTimeout
    \/ PostRequestException
    \/ PostUnexpected
    \/ Sleep
    \/ Classify
    \/ ExceptTimeout
    \/ ExceptRequest
    \/ ExceptException

\* the program with log files that can always be written
Spec == Init /\ [][Next]_vars

\* Spec with main() always taking its next step: every requests.post
\* returns or raises, every sleep ends, every file write returns.  Signals
\* may or may not come
SpecFair == Init /\ [][Next]_vars /\ WF_vars(MainStep)

\* the program reading one-row sheets that vary in their tag_ids cell
NextTags == ReadTagSheet \/ MainStep \/ Signal

SpecTags == Init /\ [][NextTags]_vars

NextIO ==
    \/ Next
    \/ ClassifyLogRaises
    \/ HandlerLogRaises

\* the program with log files whose writes may fail
SpecIO == Init /\ [][NextIO]_vars

----------------------------------------------------------------------------
\* What the history says about one record

Recs == 1..Len(df)

\* number of lines of a log file written for record i
Lines(log, i) == Cardinality({k \in DOMAIN log : log[k].rec = i})

\* number of lines written for record i, both files together
Total(i) == Lines(success_log, i) + Lines(failure_log, i)

\* the requests.post calls of record i, as positions in its events
PostsOf(i) == {k \in DOMAIN events[i] : events[i][k].ev # "sleep"}

Posts(i) == Cardinality(PostsOf(i))

Sleeps(i) == Cardinality({k \in DOMAIN events[i] : events[i][k].ev = "sleep"})

\* the calls of record i that received an HTTP response
Responses(i) == {k \in PostsOf(i) : events[i][k].ev = "response"}

\* the for loop has left record i behind
Done(i) == i < idx

\* main() is inside the processing of the record at idx
InRecord ==
    pc \in {"build", "post", "sleep", "classify", "except_timeout",
            "except_request", "except_exception"}

\* the only line written for record i in a log file
TheLine(log, i) == log[CHOOSE k \in DOMAIN log : log[k].rec = i]

----------------------------------------------------------------------------
\* C1: the driver logs at most one outcome line per record, both log files
\* together; exactly one for every record whose payload was built and whose
\* submission was started, once the loop has left it; and none for a record
\* the loop never entered because the cancel flag was seen set.
C1_OneOutcomePerRecord ==
    \A i \in Recs :
        /\ Total(i) <= 1
        /\ (Done(i) /\ built[i] = "ok") => (Posts(i) >= 1 /\ Total(i) = 1)
        /\ i > started => Total(i) = 0

\* a record logged after a retry, and the next record skipped on cancel
C1_Witness ==
    /\ pc = "finished"
    /\ Len(df) = 2
    /\ started = 1
    /\ kill_now
    /\ built[1] = "ok"
    /\ Posts(1) >= 2
    /\ Total(1) = 1
    /\ Total(2) = 0

\* C2: for every record whose payload build fails, exactly one Failure line
\* is appended to the failure log for it, and the driver continues.
C2_BuildFailureLogged ==
    \A i \in Recs :
        (Done(i) /\ built[i] = "failed") =>
            /\ Lines(failure_log, i) = 1
            /\ TheLine(failure_log, i).kind = "Falha"

\* C3: a record whose payload build fails gets zero POST attempts:
\* make_request is not entered between the failed build and the next record.
C3_NoPostAfterBuildFailure ==
    /\ \A i \in Recs : built[i] = "failed" => (events[i] = <<>> /\ Done(i))
    /\ (pc \in {"post", "sleep"}) => built[idx] = "ok"

\* a failed build is behind and the next record is in submission
C3_Witness ==
    /\ pc = "sleep"
    /\ idx = 2
    /\ built[1] = "failed"
    /\ Posts(2) = 1

\* C4: a built record that receives a response with status 200 or 201 gets
\* exactly one Success line in the success log and never a line in the
\* failure log.
C4_AcceptedIsSuccess ==
    \A i \in Recs :
        (\E k \in Responses(i) : events[i][k].code \in {200, 201}) =>
            /\ Lines(failure_log, i) = 0
            /\ Lines(success_log, i) <= 1
            /\ Done(i) =>
                /\ Lines(success_log, i) = 1
                /\ TheLine(success_log, i).kind = "Sucesso"
                /\ \E k \in Responses(i) :
                       events[i][k].code = TheLine(success_log, i).code

\* status 201 received on the third attempt, after two failed ones
C4_Witness ==
    \E i \in Recs :
        /\ Done(i)
        /\ Posts(i) = 3
        /\ \E k \in Responses(i) : events[i][k].code = 201
        /\ Lines(success_log, i) = 1

\* C5: once an attempt of make_request has received a response, whatever
\* its status, no further POST is issued for that record; a first attempt
\* answered with a status outside {200, 201} is the record's only call.
C5_NoRetryAfterResponse ==
    \A i \in Recs :
        \A k \in Responses(i) :
            /\ k = Len(events[i])
            /\ Posts(i) = events[i][k].attempt
            /\ (events[i][k].attempt = 1 /\ events[i][k].code \notin {200, 201})
                   => Posts(i) = 1

\* a first attempt answered 500: the record is done after that one call
C5_Witness ==
    \E i \in Recs :
        /\ Done(i)
        /\ Responses(i) = {1}
        /\ events[i][1].code = 500
        /\ Posts(i) = 1
        /\ Lines(failure_log, i) = 1

\* every call of record i timed out
AllTimeout(i) ==
    /\ Posts(i) >= 1
    /\ \A k \in PostsOf(i) : events[i][k].ev = "Timeout"

\* C6: a submission whose every attempt times out issues exactly
\* max_retries POSTs, with exactly one sleep of SleepSeconds between two
\* consecutive attempts and none after the last, and the Timeout of the last
\* attempt is what main logs as the record's single Failure line.
C6_TimeoutRetries ==
    \A i \in Recs :
        (Done(i) /\ AllTimeout(i)) =>
            /\ Posts(i) = max_retries
            /\ Sleeps(i) = max_retries - 1
            /\ Len(events[i]) = 2 * max_retries - 1
            /\ \A k \in DOMAIN events[i] :
                   IF k % 2 = 1
                   THEN events[i][k] = PostEv("Timeout", (k + 1) \div 2, 0)
                   ELSE events[i][k] = SleepEv(1)
            /\ Lines(success_log, i) = 0
            /\ Lines(failure_log, i) = 1
            /\ TheLine(failure_log, i).text = "Timeout na requisicao"
            /\ TheLine(failure_log, i).handled = Exc("Timeout", max_retries)

\* a record whose three attempts all timed out, logged
C6_Witness ==
    \E i \in Recs :
        /\ Done(i)
        /\ AllTimeout(i)
        /\ Posts(i) = 3
        /\ Lines(failure_log, i) = 1

\* C7: after the interrupt handler has set the cancel flag, no record whose
\* loop-top flag check had not yet been passed is built, submitted or
\* logged: no further record is entered and the rest have no log line.
C7_NoNewRecordAfterCancel ==
    kill_now =>
        /\ killAt.set
        /\ started = killAt.started
        /\ \A i \in Recs :
               i > killAt.started =>
                   /\ built[i] = "none"
                   /\ events[i] = <<>>
                   /\ Total(i) = 0
        /\ (pc = "finished" /\ killAt.pc # "read") =>
               idx = killAt.started + 1

\* the flag was set while record 1 was being classified; record 2 was left
C7_Witness ==
    /\ pc = "finished"
    /\ kill_now
    /\ Len(df) = 2
    /\ killAt.started = 1
    /\ killAt.pc = "classify"
    /\ Total(1) = 1
    /\ built[2] = "none"
    /\ Total(2) = 0

\* record i's submission ran to its end: a response, an exception that is
\* not retried, or a failure of the last attempt
Completed(i) ==
    /\ events[i] # <<>>
    /\ LET last == events[i][Len(events[i])] IN
        \/ last.ev \in {"response", "Exception"}
        \/ last.ev \in {"Timeout", "RequestException"}
               /\ last.attempt = max_retries
               /\ Posts(i) = max_retries

\* C8: when the signal arrives while a record is mid-submission (in a POST
\* or in the sleep between attempts), the process is not terminated and the
\* record is not cut short: it makes its remaining attempts, is classified
\* and its line is logged before the loop observes the flag and stops.
C8_MidSubmissionCompletes ==
    (killAt.set /\ killAt.pc \in {"post", "sleep"}) =>
        \/ /\ idx = killAt.idx
           /\ pc \in {"post", "sleep", "classify", "except_timeout",
                      "except_request", "except_exception"}
           /\ Total(idx) = 0
        \/ /\ idx = killAt.idx + 1
           /\ pc \in {"loop", "finished"}
           /\ Completed(killAt.idx)
           /\ Total(killAt.idx) = 1

\* the flag was set during a sleep of record 1, which then timed out on all
\* its attempts and was logged; the loop stopped before record 2
C8_Witness ==
    /\ killAt.set
    /\ killAt.pc = "sleep"
    /\ killAt.idx = 1
    /\ pc = "finished"
    /\ Len(df) = 2
    /\ Posts(1) = 3
    /\ Lines(failure_log, 1) = 1
    /\ Total(2) = 0

\* record i met an error: its build failed, or its submission ended in an
\* exception, or its response had a status that is not accepted
Errored(i) ==
    \/ built[i] = "failed"
    \/ /\ events[i] # <<>>
       /\ LET last == events[i][Len(events[i])] IN
           \/ last.ev \in {"Timeout", "RequestException", "Exception"}
           \/ last.ev = "response" /\ last.code \notin {200, 201}

\* main() has not ended with an uncaught exception
NeverCrashes == pc # "crashed"

\* C9: every error at any step of a record's processing (build, submission,
\* classification, writing the outcome line) is caught and recorded as a
\* Failure and the driver goes on; the batch never stops abnormally.
C9_EveryErrorRecorded ==
    /\ NeverCrashes
    /\ \A i \in Recs :
           (Done(i) /\ Errored(i)) => Lines(failure_log, i) = 1

\* a log file's lines are in the order of their records
Ordered(log) ==
    \A j, k \in DOMAIN log : j < k => log[j].rec < log[k].rec

\* C10: records are processed in source order and their lines are logged in
\* that order: the loop index never goes back, every build, POST and log
\* write is of the record the loop is at, a line is only ever added at the
\* end of a file, and the step that writes a record's line is the step that
\* ends the record.
C10_SourceOrder ==
    [][/\ idx' >= idx
       /\ Len(success_log') >= Len(success_log)
       /\ Len(failure_log') >= Len(failure_log)
       /\ SubSeq(success_log', 1, Len(success_log)) = success_log
       /\ SubSeq(failure_log', 1, Len(failure_log)) = failure_log
       /\ \A k \in (Len(success_log) + 1)..Len(success_log') :
              success_log'[k].rec = idx /\ idx' = idx + 1
       /\ \A k \in (Len(failure_log) + 1)..Len(failure_log') :
              failure_log'[k].rec = idx /\ idx' = idx + 1
       /\ Ordered(success_log') /\ Ordered(failure_log')
       /\ \A i \in DOMAIN events :
              i # idx => (events'[i] = events[i] /\ built'[i] = built[i])
      ]_vars

\* both records of a two-row sheet have their line, in different files
C10_Witness ==
    /\ pc = "finished"
    /\ Len(df) = 2
    /\ Lines(failure_log, 1) = 1
    /\ Lines(success_log, 2) = 1
    /\ Posts(1) = 3

\* C11: a built record whose submission returns a response with a status
\* outside {200, 201} gets exactly one Failure line "Status code: <code>"
\* with the code received, nothing in the success log, and the driver goes
\* on to the next record.
C11_RefusedStatusLogged ==
    \A i \in Recs :
        \A k \in Responses(i) :
            events[i][k].code \notin {200, 201} =>
                /\ built[i] = "ok"
                /\ Lines(success_log, i) = 0
                /\ IF Done(i)
                   THEN /\ Lines(failure_log, i) = 1
                        /\ TheLine(failure_log, i).kind = "Falha"
                        /\ TheLine(failure_log, i).label = "Erro"
                        /\ TheLine(failure_log, i).text = "Status code: "
                        /\ TheLine(failure_log, i).code = events[i][k].code
                   ELSE /\ idx = i
                        /\ pc = "classify"
                        /\ Lines(failure_log, i) = 0

\* record 1 was answered 500 and logged, and record 2 is being processed
C11_Witness ==
    /\ Len(df) = 2
    /\ idx = 2
    /\ pc = "post"
    /\ Responses(1) = {1}
    /\ events[1][1].code = 500
    /\ Lines(failure_log, 1) = 1
    /\ TheLine(failure_log, 1).code = 500

\* C12: when read_excel_file cannot read the input, the run ends before any
\* record is processed: no payload is built, no POST is issued and no line
\* is written to either log file.
C12_ReadFailureAborts ==
    (pc = "returned" \/ pc = "read") =>
        /\ df = <<>>
        /\ started = 0
        /\ payload = Unbound
        /\ built = <<>>
        /\ events = <<>>
        /\ success_log = <<>>
        /\ failure_log = <<>>

\* main has returned after a failed read
C12_Witness == pc = "returned"

\* C13: for every record sequence, if every POST returns or fails, the run
\* completes: once the sheet is read, main reaches its last statement (the
\* summary line), after the last record or after it saw the cancel flag set.
C13_RunCompletes ==
    (pc = "loop") ~> (pc = "finished" /\ (idx > Len(df) \/ kill_now))

\* the run ended on the cancel flag with a record left
C13_Witness ==
    /\ pc = "finished"
    /\ kill_now
    /\ Len(df) = 2
    /\ idx = 2
    /\ Posts(1) = 3

\* C14: the cancel flag starts false and is changed only by the interrupt
\* handler, only from false to true: it is never reset, a repeated signal
\* leaves it true, and every step of the builder, the submitter, the logger
\* and the driver (every step that moves main or writes a log) leaves it as
\* it is.
C14_FlagSetOnlyByHandler ==
    /\ kill_now = FALSE
    /\ [][/\ kill_now => kill_now'
          /\ (kill_now' # kill_now) =>
                 /\ kill_now' = TRUE
                 /\ UNCHANGED <<pc, df, idx, payload, attempt, max_retries,
                                response, exc, success_log, failure_log,
                                built, events, started>>
         ]_vars

\* the flag was set during a POST of record 1 and is still set at the end
C14_Witness ==
    /\ kill_now
    /\ killAt.pc = "post"
    /\ killAt.idx = 1
    /\ pc = "finished"
    /\ Total(1) = 1

\* the outcomes the endpoint gave to record i, attempt by attempt
PostOutcomes(i) == SelectSeq(events[i], LAMBDA e : e.ev # "sleep")

RECURSIVE Verdict(_, _, _)
\* what a run must make of the per-attempt outcomes `outs` from attempt k
\* on, with m attempts allowed: the classification and the number of
\* attempts it takes ("open": the outcomes given do not decide it)
Verdict(outs, k, m) ==
    IF k > Len(outs) THEN [kind |-> "open", used |-> k - 1]
    ELSE IF outs[k].ev = "response"
         THEN [kind |-> IF outs[k].code \in {200, 201} THEN "Sucesso"
                        ELSE "Falha",
               used |-> k]
    ELSE IF outs[k].ev = "Exception" \/ k = m
         THEN [kind |-> "Falha", used |-> k]
    ELSE Verdict(outs, k + 1, m)

\* the classification of record i as a function of its row and of the
\* endpoint's outcomes alone: "none" is no line
Expected(i) ==
    IF PayloadRaises(df[i]) THEN "none"
    ELSE Verdict(PostOutcomes(i), 1, max_retries).kind

\* the records a log file must hold, in order
ExpectedOrder(kind) ==
    SelectSeq([i \in 1..Len(df) |-> i], LAMBDA i : Expected(i) = kind)

LogRecs(log) == [k \in DOMAIN log |-> log[k].rec]

\* C15: two runs over the same record sequence against endpoints with the
\* same per-attempt behaviour and no interrupt give the same classification
\* of every record and the same line order in both logs.  Stated as: at the
\* end of a run without interrupt, the attempts made and both logs are the
\* value of a function of the sheet and the per-attempt outcomes, so that
\* any two such runs agree.
C15_LogsAreFunctionOfInputs ==
    (pc = "finished" /\ ~kill_now) =>
        /\ \A i \in Recs :
               /\ Expected(i) # "open"
               /\ Expected(i) # "none" =>
                      Verdict(PostOutcomes(i), 1, max_retries).used
                          = Len(PostOutcomes(i))
               /\ Expected(i) = "none" => events[i] = <<>>
        /\ LogRecs(success_log) = ExpectedOrder("Sucesso")
        /\ LogRecs(failure_log) = ExpectedOrder("Falha")
        /\ \A k \in DOMAIN success_log : success_log[k].kind = "Sucesso"
        /\ \A k \in DOMAIN failure_log : failure_log[k].kind = "Falha"

\* a finished run without interrupt: record 1 failed after three attempts,
\* record 2 succeeded on its second
C15_Witness ==
    /\ pc = "finished"
    /\ ~kill_now
    /\ Len(df) = 2
    /\ Posts(1) = 3
    /\ Lines(failure_log, 1) = 1
    /\ Posts(2) = 2
    /\ Lines(success_log, 2) = 1

RECURSIVE Join(_, _)
\* the parts put together again with the separator between them
Join(parts, sep) ==
    IF Len(parts) = 0 THEN <<>>
    ELSE IF Len(parts) = 1 THEN parts[1]
    ELSE parts[1] \o <<sep>> \o Join(Tail(parts), sep)

\* parts are the comma-split parts of the text s
IsCommaSplit(parts, s) ==
    /\ Len(parts) >= 1
    /\ Join(parts, ",") = s
    /\ \A k \in DOMAIN parts : \A j \in DOMAIN parts[k] : parts[k][j] # ","

\* C16: the payload builder sets tag_ids to the comma-split parts of the
\* tag_ids cell when it is a non-empty string, and to the empty sequence in
\* every other case: the empty string, a missing cell, a value that is no
\* string.
C16_TagIds ==
    (payload.bound /\ payload.v # <<>>) =>
        LET cell == df[payload.of]["tag_ids"]
            tags == payload.v[1].tag_ids
        IN IF cell.t = "str" /\ cell.s # <<>>
           THEN IsCommaSplit(tags, cell.s)
           ELSE tags = <<>>

\* the part of C16 the code does meet: every case but the empty string
C16_TagIdsButEmptyText ==
    (payload.bound /\ payload.v # <<>>) =>
        LET cell == df[payload.of]["tag_ids"]
            tags == payload.v[1].tag_ids
        IN IF cell.t = "str"
           THEN IsCommaSplit(tags, cell.s)
           ELSE tags = <<>>

Failures == {"Timeout", "RequestException"}

\* C17: for max_retries >= 1 and per-attempt outcomes that are responses,
\* timeouts or other transport failures, make_request returns the response
\* of the first attempt that gets one, otherwise raises the error of attempt
\* number max_retries; both kinds of failure count on one attempt counter,
\* so no more than max_retries POSTs are made, and a failed attempt is
\* followed by a sleep exactly when it is not the last attempt.
C17_RetryProtocol ==
    (max_retries >= 1 /\ pc \notin {"read", "returned"}) =>
        LET evs == events[1]
            outs == PostOutcomes(1)
            n == Len(outs)
        IN (\A k \in DOMAIN outs : outs[k].ev # "Exception") =>
            /\ n <= max_retries
            /\ \A k \in DOMAIN outs :
                   /\ outs[k].attempt = k
                   /\ outs[k].ev = "response" => k = n
            /\ pc # "except_exception"
            /\ pc = "classify" =>
                   (n >= 1 /\ outs[n].ev = "response"
                        /\ response = <<outs[n].code>>)
            /\ (n >= 1 /\ outs[n].ev = "response") =>
                   (pc = "classify" \/ Done(1))
            /\ pc \in {"except_timeout", "except_request"} =>
                   /\ n = max_retries
                   /\ outs[n].ev \in Failures
                   /\ exc = Exc(outs[n].ev, max_retries)
                   /\ pc = (IF outs[n].ev = "Timeout" THEN "except_timeout"
                            ELSE "except_request")
            /\ (n = max_retries /\ outs[n].ev \in Failures) =>
                   \/ pc \in {"except_timeout", "except_request"}
                   \/ /\ Done(1)
                      /\ Lines(failure_log, 1) = 1
                      /\ TheLine(failure_log, 1).handled
                             = Exc(outs[n].ev, max_retries)
            /\ \A k \in DOMAIN evs :
                   /\ evs[k].ev \in Failures =>
                          IF evs[k].attempt < max_retries
                          THEN /\ k < Len(evs) => evs[k + 1].ev = "sleep"
                               /\ k = Len(evs) => pc = "sleep"
                          ELSE k = Len(evs)
                   /\ evs[k].ev = "sleep" =>
                          /\ k > 1
                          /\ evs[k - 1].ev \in Failures
                          /\ evs[k].dur = 1
                          /\ k = Len(evs) => pc = "post"

\* with four attempts allowed: a timeout, another transport failure and a
\* timeout, each followed by a sleep, then a response on the fourth attempt
C17_Witness ==
    /\ max_retries = 4
    /\ pc = "classify"
    /\ Len(events[1]) = 7
    /\ events[1][1].ev = "Timeout"
    /\ events[1][3].ev = "RequestException"
    /\ events[1][5].ev = "Timeout"
    /\ events[1][7].ev = "response"

\* C18: for every value of max_retries, 0 included, make_request ends by
\* returning a response or by raising an error, never with neither.
C18_ResponseOrError ==
    /\ pc = "classify" => response # <<>>
    /\ pc \in {"except_timeout", "except_request"} => exc.cls \in Failures

\* log lines written and POSTs issued so far, all records together
AllLines == Len(success_log) + Len(failure_log)

AllPosts == SumPosts(events, Len(df))

\* C19: once the cancel flag is true, at most one more outcome line is
\* logged (that of the record whose loop-top check had been passed), at most
\* max_retries more POSTs are issued, and no further record is started.
C19_BoundedWorkAfterSignal ==
    kill_now =>
        /\ AllLines - killAt.lines <= 1
        /\ AllPosts - killAt.posts <= max_retries
        /\ started = killAt.started
        /\ AllLines > killAt.lines =>
               /\ killAt.pc \in {"build", "post", "sleep", "classify",
                                 "except_timeout", "except_request",
                                 "except_exception"}
               /\ killAt.idx = killAt.started
               /\ Total(killAt.idx) = 1
               /\ idx = killAt.idx + 1
        /\ AllPosts > killAt.posts => Posts(killAt.idx) >= AllPosts - killAt.posts

\* the flag was set before the first POST of record 1; three POSTs and one
\* line followed, and record 2 was never started
C19_Witness ==
    /\ kill_now
    /\ pc = "finished"
    /\ Len(df) = 2
    /\ killAt.pc = "post"
    /\ killAt.posts = 0
    /\ AllPosts = 3
    /\ AllLines = killAt.lines + 1
    /\ started = 1

\* the lines of both log files
BothLogs == {success_log[k] : k \in DOMAIN success_log}
                \cup {failure_log[k] : k \in DOMAIN failure_log}

\* C20: every line of either log carries the payload built from the record
\* processed in the same loop iteration: never a payload left from an
\* earlier record, never a missing (None or unbound) one.
C20_LineCarriesOwnPayload ==
    \A l \in BothLogs :
        /\ l.rec \in Recs
        /\ l.data.bound
        /\ l.data.of = l.rec
        /\ l.data.v # <<>>
        /\ l.data.v = <<PayloadDict(df[l.rec])>>
        /\ ~PayloadRaises(df[l.rec])

\* record 1 failed to build and has no line; record 2 met an unexpected
\* error and its line carries its own payload
C20_Witness ==
    /\ Len(df) = 2
    /\ built[1] = "failed"
    /\ Total(1) = 0
    /\ Lines(failure_log, 2) = 1
    /\ TheLine(failure_log, 2).handled.cls = "Exception"
    /\ TheLine(failure_log, 2).data.of = 2

====
